---- MODULE Spec2Model ----
(***************************************************************************)
(* Model of src/main.py: the CreateImage renderer (constructor and main()  *)
(* pipeline) and the interactive driver loop under `if __name__ == ...'.   *)
(*                                                                         *)
(* Strings are sequences of one-character strings, so that split, strip,   *)
(* lower and textwrap.wrap are computed character by character.            *)
(***************************************************************************)
EXTENDS Integers, Sequences, FiniteSets, TLC

\* ------------------------------------------------------------------ bounds
MaxLen == 4          \* longest request text, in characters
MaxWidth == 4        \* widest initial canvas of a direct render request
MaxImages == 2       \* the driver stops taking entries once image_counter exceeds it

\* ------------------------------------------------------- input domains
Alphabet == {"a", "b", " ", "\n"}
FontPaths == {"arial.ttf", "missing.ttf"}
FontSizes == {1, 2}
Margins == {0, 1}
Heights == {16, 600}
\* pixel width of the 52-letter probe string in the loaded font (getbbox(...)[2])
FontMeasures == {0, 52, 104}

RECURSIVE SeqsUpTo(_, _)
SeqsUpTo(S, n) ==
    IF n = 0 THEN {<<>>}
    ELSE LET shorter == SeqsUpTo(S, n - 1)
         IN  shorter \cup {Append(s, c) : s \in {t \in shorter : Len(t) = n - 1}, c \in S}

Texts == SeqsUpTo(Alphabet, MaxLen)

\* ------------------------------------------------------- string helpers
Whitespace == {" ", "\n", "\t"}

IsSpace(s) == \A i \in 1..Len(s) : s[i] \in Whitespace

RECURSIVE Concat(_)
Concat(ss) == IF ss = <<>> THEN <<>> ELSE Head(ss) \o Concat(Tail(ss))

\* str.split('\n'): always at least one segment, empty segments kept
RECURSIVE Split(_)
Split(s) ==
    IF \A i \in 1..Len(s) : s[i] # "\n" THEN <<s>>
    ELSE LET i == CHOOSE j \in 1..Len(s) :
                     s[j] = "\n" /\ \A k \in 1..(j - 1) : s[k] # "\n"
         IN  <<SubSeq(s, 1, i - 1)>> \o Split(SubSeq(s, i + 1, Len(s)))

RECURSIVE LStrip(_)
LStrip(s) == IF s # <<>> /\ Head(s) \in Whitespace THEN LStrip(Tail(s)) ELSE s

RECURSIVE RStrip(_)
RStrip(s) ==
    IF s # <<>> /\ s[Len(s)] \in Whitespace THEN RStrip(SubSeq(s, 1, Len(s) - 1)) ELSE s

\* the input line taken as typed
Strip_None(s) == s

\* str.strip()
Strip(s) == RStrip(LStrip(s))

LowerChar(c) == IF c = "E" THEN "e" ELSE IF c = "X" THEN "x" ELSE c

\* str.lower()
Lower(s) == [i \in 1..Len(s) |-> LowerChar(s[i])]

\* ------------------------------------------------------- textwrap.wrap
\* TextWrapper._munge_whitespace: every whitespace character becomes a space
Munge(s) == [i \in 1..Len(s) |-> IF s[i] \in Whitespace THEN " " ELSE s[i]]

\* TextWrapper._split: maximal runs of spaces and maximal runs of non-spaces
RECURSIVE Chunks(_)
Chunks(s) ==
    IF s = <<>> THEN <<>>
    ELSE LET sp == (s[1] = " ")
             n  == CHOOSE j \in 1..Len(s) :
                      /\ \A k \in 1..j : (s[k] = " ") = sp
                      /\ (j = Len(s) \/ (s[j + 1] = " ") # sp)
         IN  <<SubSeq(s, 1, n)>> \o Chunks(SubSeq(s, n + 1, Len(s)))

\* inner loop of _wrap_chunks: take chunks while they fit on the current line
RECURSIVE FillLine(_, _, _, _)
FillLine(chunks, cur_line, cur_len, width) ==
    IF chunks # <<>> /\ cur_len + Len(Head(chunks)) <= width
    THEN FillLine(Tail(chunks), Append(cur_line, Head(chunks)),
                  cur_len + Len(Head(chunks)), width)
    ELSE <<cur_line, chunks>>

\* outer loop of _wrap_chunks (width >= 1, no indent, drop_whitespace,
\* break_long_words), with _handle_long_word inlined
RECURSIVE WrapChunks(_, _, _)
WrapChunks(chunks, lines, width) ==
    IF chunks = <<>> THEN lines
    ELSE LET c0   == IF IsSpace(Head(chunks)) /\ lines # <<>> THEN Tail(chunks) ELSE chunks
             f    == FillLine(c0, <<>>, 0, width)
             cur1 == f[1]
             r1   == f[2]
             long == r1 # <<>> /\ Len(Head(r1)) > width
             left == width - Len(Concat(cur1))
             cur2 == IF long THEN Append(cur1, SubSeq(Head(r1), 1, left)) ELSE cur1
             r2   == IF long
                     THEN <<SubSeq(Head(r1), left + 1, Len(Head(r1)))>> \o Tail(r1)
                     ELSE r1
             cur3 == IF cur2 # <<>> /\ IsSpace(cur2[Len(cur2)])
                     THEN SubSeq(cur2, 1, Len(cur2) - 1) ELSE cur2
         IN  WrapChunks(r2, IF cur3 # <<>> THEN Append(lines, Concat(cur3)) ELSE lines, width)

\* textwrap.wrap(line, width=width) for width >= 1
Wrap(line, width) == WrapChunks(Chunks(Munge(line)), <<>>, width)


\* ------------------------------------------------------------------ state
VARIABLES
    self,                 \* the CreateImage object: request fields and loaded font
    existing_fonts,       \* file system: font paths for which os.path.exists holds
    files,                \* file system: what lies at each output path
    images,               \* heap of Image objects, an image's identity is its index
    image,                \* main(): local `image` (index into images, 0 = unbound)
    draw,                 \* main(): local `draw`, the image its ImageDraw is bound to
    max_chars_per_line,   \* main(): local
    wrapped_lines,        \* main(): local
    total_height,         \* main(): local
    y_position,           \* draw_text(): local
    line_index,           \* draw_text(): lines of wrapped_lines consumed by the loop
    draw_calls,           \* every draw.text call of this render, in call order
    calls,                \* library calls made by this render, in call order
    pc,                   \* position in the constructor, main() or the driver loop
    error,                \* the exception in flight
    image_counter,        \* driver: local
    entry,                \* driver: local `text` (the stripped input line)
    session,              \* driver: "running", "exited", "crashed"; "direct" without driver
    stdout                \* driver: the message printed last

locals == <<image, draw, max_chars_per_line, wrapped_lines, total_height,
            y_position, line_index>>
driver == <<image_counter, entry, session, stdout>>
vars == <<self, existing_fonts, files, images, locals, draw_calls, calls, pc, error, driver>>

\* program constants
line_spacing == 5
default_y_position == 10
test_string_len == 52
driver_font_size == 20
default_margin == 10
default_initial_width == 800
default_initial_height == 600
driver_font_path == "arial.ttf"
output_image_base == "output_image"

NoFont == -1
NoSelf == [text |-> <<>>, font_path |-> "", font_size |-> 0, output_image_path |-> <<>>,
           margin |-> 0, initial_width |-> 0, initial_height |-> 0, font |-> NoFont]

NoError == [type |-> "None", msg |-> <<>>]
Raise(t) == [type |-> t, msg |-> <<>>]

\* f"{output_image_base}_{image_counter}.jpg"
OutputPath(base, n) == <<base, "_", n, ".jpg">>
Paths == {OutputPath(output_image_base, n) : n \in 1..MaxImages}

NoFile == [kind |-> "none", w |-> 0, h |-> 0, lines |-> <<>>]
OldFile == [kind |-> "old", w |-> 0, h |-> 0, lines |-> <<>>]
PartialFile == [kind |-> "partial", w |-> 0, h |-> 0, lines |-> <<>>]

\* int(x / y) for y > 0: Python's int() truncates toward zero
TruncDiv(a, b) == IF a >= 0 THEN a \div b ELSE -((-a) \div b)

\* the usable width taken as a magnitude
calculate_max_chars_per_line_Abs(initial_width, margin, total_width) ==
    TruncDiv(test_string_len * (IF initial_width - 2 * margin >= 0
                                THEN initial_width - 2 * margin
                                ELSE 2 * margin - initial_width), total_width)

\* calculate_max_chars_per_line, total_width # 0:
\* int((initial_width - 2*margin) / (total_width / 52))
calculate_max_chars_per_line(initial_width, margin, total_width) ==
    TruncDiv(test_string_len * (initial_width - 2 * margin), total_width)

\* textwrap.wrap raises ValueError for width <= 0; it is called for non-empty segments only
WrapTextRaises(text, width) ==
    width <= 0 /\ \E i \in 1..Len(Split(text)) : Split(text)[i] # <<>>

\* every segment handed to textwrap.wrap, which returns no line for an empty one
WrapSegment_DropEmpty(line, width) == Wrap(line, width)

\* one segment's contribution to wrapped_lines
WrapSegment(line, width) == IF line # <<>> THEN Wrap(line, width) ELSE << <<>> >>

RECURSIVE ExtendAll(_, _)
ExtendAll(lines, width) ==
    IF lines = <<>> THEN <<>>
    ELSE WrapSegment(Head(lines), width) \o ExtendAll(Tail(lines), width)

\* the whole text handed to textwrap.wrap without the split on newlines
wrap_text_Whole(text, width) ==
    IF width >= 1 THEN Wrap(text, width) ELSE ExtendAll(Split(text), width)

\* wrap_text when no segment raises
wrap_text(text, width) == ExtendAll(Split(text), width)

calculate_total_height(lines, font_size) ==
    default_y_position + Len(lines) * (font_size + line_spacing)

\* what has been painted on image id: the draw.text calls made through a surface bound to it
RECURSIVE Painted(_, _)
Painted(dc, id) ==
    IF dc = <<>> THEN <<>>
    ELSE (IF Head(dc).surface = id THEN <<Head(dc).line>> ELSE <<>>) \o Painted(Tail(dc), id)

\* ------------------------------------------------------------------ constructor
\* __init__ lines 30-38 have run: the request fields are assigned, nothing else has happened
NewRenderer(text, font_path, font_size, output_image_path, margin, initial_width, initial_height) ==
    [text |-> text, font_path |-> font_path, font_size |-> font_size,
     output_image_path |-> output_image_path, margin |-> margin,
     initial_width |-> initial_width, initial_height |-> initial_height, font |-> NoFont]

FreshLocals ==
    /\ image = 0 /\ draw = 0 /\ max_chars_per_line = 0 /\ wrapped_lines = <<>>
    /\ total_height = 0 /\ y_position = 0 /\ line_index = 0

ResetLocals ==
    /\ image' = 0 /\ draw' = 0 /\ max_chars_per_line' = 0 /\ wrapped_lines' = <<>>
    /\ total_height' = 0 /\ y_position' = 0 /\ line_index' = 0

\* the existence test made but its result not acted on
validate_font_path_Unchecked ==
    /\ pc = "validate_font_path"
    /\ calls' = Append(calls, "os.path.exists")
    /\ pc' = "truetype"
    /\ UNCHANGED <<self, existing_fonts, files, images, locals, draw_calls, error, driver>>

\* validate_font_path
validate_font_path ==
    /\ pc = "validate_font_path"
    /\ calls' = Append(calls, "os.path.exists")
    /\ IF self.font_path \in existing_fonts
       THEN pc' = "truetype" /\ error' = error
       ELSE /\ pc' = "failed"
            /\ error' = [type |-> "FileNotFoundError",
                         msg |-> <<"Font file '", self.font_path, "' not found.">>]
    /\ UNCHANGED <<self, existing_fonts, files, images, locals, draw_calls, driver>>

\* self.font = ImageFont.truetype(...): unreadable font data raises OSError
truetype ==
    /\ pc = "truetype"
    /\ calls' = Append(calls, "ImageFont.truetype")
    /\ \E r \in FontMeasures \cup {NoFont} :
          IF r = NoFont
          THEN pc' = "failed" /\ error' = Raise("OSError") /\ self' = self
          ELSE pc' = "create_base_image" /\ error' = error /\ self' = [self EXCEPT !.font = r]
    /\ UNCHANGED <<existing_fonts, files, images, locals, draw_calls, driver>>

\* ------------------------------------------------------------------ main()
\* the blank canvas written to the output path as soon as it exists
create_base_image_Touch ==
    /\ pc = "create_base_image"
    /\ images' = Append(images, [w |-> self.initial_width, h |-> self.initial_height])
    /\ image' = Len(images) + 1
    /\ draw' = Len(images) + 1
    /\ calls' = calls \o <<"Image.new", "ImageDraw.Draw">>
    /\ files' = [files EXCEPT ![self.output_image_path] =
                    [kind |-> "image", w |-> self.initial_width,
                     h |-> self.initial_height, lines |-> <<>>]]
    /\ pc' = "calculate_max_chars_per_line"
    /\ UNCHANGED <<self, existing_fonts, max_chars_per_line, wrapped_lines,
                   total_height, y_position, line_index, draw_calls, error, driver>>

create_base_image ==
    /\ pc = "create_base_image"
    /\ images' = Append(images, [w |-> self.initial_width, h |-> self.initial_height])
    /\ image' = Len(images) + 1
    /\ draw' = Len(images) + 1
    /\ calls' = calls \o <<"Image.new", "ImageDraw.Draw">>
    /\ pc' = "calculate_max_chars_per_line"
    /\ UNCHANGED <<self, existing_fonts, files, max_chars_per_line, wrapped_lines,
                   total_height, y_position, line_index, draw_calls, error, driver>>

CalculateMaxCharsPerLine ==
    /\ pc = "calculate_max_chars_per_line"
    /\ calls' = Append(calls, "font.getbbox")
    /\ IF self.font = 0
       THEN /\ pc' = "failed" /\ error' = Raise("ZeroDivisionError")
            /\ max_chars_per_line' = max_chars_per_line
       ELSE /\ pc' = "wrap_text" /\ error' = error
            /\ max_chars_per_line' =
                  calculate_max_chars_per_line(self.initial_width, self.margin, self.font)
    /\ UNCHANGED <<self, existing_fonts, files, images, image, draw, wrapped_lines,
                   total_height, y_position, line_index, draw_calls, driver>>

WrapText ==
    /\ pc = "wrap_text"
    /\ IF WrapTextRaises(self.text, max_chars_per_line)
       THEN pc' = "failed" /\ error' = Raise("ValueError") /\ wrapped_lines' = wrapped_lines
       ELSE /\ pc' = "calculate_total_height" /\ error' = error
            /\ wrapped_lines' = wrap_text(self.text, max_chars_per_line)
    /\ UNCHANGED <<self, existing_fonts, files, images, image, draw, max_chars_per_line,
                   total_height, y_position, line_index, draw_calls, calls, driver>>

CalculateTotalHeight ==
    /\ pc = "calculate_total_height"
    /\ total_height' = calculate_total_height(wrapped_lines, self.font_size)
    /\ pc' = "adjust_image_size"
    /\ UNCHANGED <<self, existing_fonts, files, images, image, draw, max_chars_per_line,
                   wrapped_lines, y_position, line_index, draw_calls, calls, error, driver>>

\* the canvas resized to the required height whatever the initial height
NeedsResize_Always(required_height, initial_height) == TRUE

\* adjust_image_size: image.resize returns a new Image object
NeedsResize(required_height, initial_height) == required_height > initial_height

adjust_image_size ==
    /\ pc = "adjust_image_size"
    /\ IF NeedsResize(total_height, self.initial_height)
       THEN /\ images' = Append(images, [w |-> self.initial_width, h |-> total_height])
            /\ image' = Len(images) + 1
            /\ calls' = Append(calls, "image.resize")
       ELSE UNCHANGED <<images, image, calls>>
    /\ pc' = "rebind_draw"
    /\ UNCHANGED <<self, existing_fonts, files, draw, max_chars_per_line, wrapped_lines,
                   total_height, y_position, line_index, draw_calls, error, driver>>

\* the surface of create_base_image kept after the resize step
RebindDraw_Stale ==
    /\ pc = "rebind_draw"
    /\ pc' = "draw_text"
    /\ UNCHANGED <<self, existing_fonts, files, images, locals, draw_calls, calls, error,
                   driver>>

\* draw = ImageDraw.Draw(image)  (line 148)
RebindDraw ==
    /\ pc = "rebind_draw"
    /\ draw' = image
    /\ calls' = Append(calls, "ImageDraw.Draw")
    /\ pc' = "draw_text"
    /\ UNCHANGED <<self, existing_fonts, files, images, image, max_chars_per_line,
                   wrapped_lines, total_height, y_position, line_index, draw_calls, error,
                   driver>>

\* draw_text: y_position = self.default_y_position
DrawTextEnter ==
    /\ pc = "draw_text"
    /\ y_position' = default_y_position
    /\ line_index' = 0
    /\ pc' = "draw_loop"
    /\ UNCHANGED <<self, existing_fonts, files, images, image, draw, max_chars_per_line,
                   wrapped_lines, total_height, draw_calls, calls, error, driver>>

\* an iteration that passes over an empty line without drawing it
DrawLine_SkipEmpty ==
    /\ pc = "draw_loop"
    /\ line_index < Len(wrapped_lines)
    /\ IF wrapped_lines[line_index + 1] = <<>>
       THEN UNCHANGED <<draw_calls, y_position>>
       ELSE /\ draw_calls' = Append(draw_calls, [surface |-> draw, x |-> self.margin,
                                                 y |-> y_position,
                                                 line |-> wrapped_lines[line_index + 1]])
            /\ y_position' = y_position + self.font_size + line_spacing
    /\ line_index' = line_index + 1
    /\ UNCHANGED <<self, existing_fonts, files, images, image, draw, max_chars_per_line,
                   wrapped_lines, total_height, calls, pc, error, driver>>

\* one iteration of `for line in wrapped_lines'
DrawLine ==
    /\ pc = "draw_loop"
    /\ line_index < Len(wrapped_lines)
    /\ draw_calls' = Append(draw_calls, [surface |-> draw, x |-> self.margin,
                                         y |-> y_position,
                                         line |-> wrapped_lines[line_index + 1]])
    /\ y_position' = y_position + self.font_size + line_spacing
    /\ line_index' = line_index + 1
    /\ UNCHANGED <<self, existing_fonts, files, images, image, draw, max_chars_per_line,
                   wrapped_lines, total_height, calls, pc, error, driver>>

\* the loop is exhausted and draw_text returns
DrawTextReturn ==
    /\ pc = "draw_loop"
    /\ line_index = Len(wrapped_lines)
    /\ pc' = "save_image"
    /\ UNCHANGED <<self, existing_fonts, files, images, locals, draw_calls, calls, error,
                   driver>>

SaveOutcomes == {"written", "refused", "broken"}

\* save_image: image.save either writes the file, or raises before touching it,
\* or raises after it has begun to write it
save_image ==
    /\ pc = "save_image"
    /\ calls' = Append(calls, "image.save")
    /\ \E o \in SaveOutcomes :
          IF o = "written"
          THEN /\ files' = [files EXCEPT ![self.output_image_path] =
                               [kind |-> "image", w |-> images[image].w,
                                h |-> images[image].h, lines |-> Painted(draw_calls, image)]]
               /\ pc' = "done" /\ error' = error
          ELSE /\ files' = IF o = "broken"
                           THEN [files EXCEPT ![self.output_image_path] = PartialFile]
                           ELSE files
               /\ pc' = "failed" /\ error' = Raise("OSError")
    /\ UNCHANGED <<self, existing_fonts, images, locals, draw_calls, driver>>

Render ==
    \/ validate_font_path \/ truetype \/ create_base_image \/ CalculateMaxCharsPerLine
    \/ WrapText \/ CalculateTotalHeight \/ adjust_image_size \/ RebindDraw
    \/ DrawTextEnter \/ DrawLine \/ DrawTextReturn \/ save_image

\* ------------------------------------------------------------------ direct requests
\* a caller builds CreateImage(...) with its own parameters and calls main()
RequestPath == OutputPath(output_image_base, 1)

Init ==
    /\ \E t \in Texts, fp \in FontPaths, fs \in FontSizes, m \in Margins,
          w \in 1..MaxWidth, h \in Heights :
          self = NewRenderer(t, fp, fs, RequestPath, m, w, h)
    /\ existing_fonts \in {{}, {driver_font_path}}
    /\ \E f \in {NoFile, OldFile} :
          files = [p \in Paths |-> IF p = RequestPath THEN f ELSE NoFile]
    /\ images = <<>>
    /\ FreshLocals
    /\ draw_calls = <<>> /\ calls = <<>>
    /\ pc = "validate_font_path"
    /\ error = NoError
    /\ image_counter = 1 /\ entry = <<>> /\ session = "direct" /\ stdout = "none"

Next == Render

Spec == Init /\ [][Next]_vars

\* ------------------------------------------------------------------ interactive driver
exit_command == <<"e", "x", "i", "t">>

\* lines the operator may type (input() never returns a newline)
Entries ==
    { <<>>, <<" ", " ">>, <<"\t">>,
      exit_command, <<" ", "E", "x", "i", "t", " ">>,
      <<"a">>, <<" ", "a", " ", " ", "b">>, <<"e", "x", "i", "t", " ", "a">> }

\* the renderer object and everything it allocated are dropped when the request is over
DropRenderer ==
    /\ self' = NoSelf
    /\ images' = <<>>
    /\ ResetLocals
    /\ draw_calls' = <<>>
    /\ calls' = <<>>

\* lines 167-187: one line is read and dispatched
ReadEntry ==
    /\ session = "running"
    /\ pc = "prompt"
    /\ image_counter <= MaxImages
    /\ \E raw \in Entries :
          /\ entry' = Strip(raw)
          /\ IF Lower(Strip(raw)) = exit_command
             THEN /\ stdout' = "goodbye" /\ session' = "exited" /\ pc' = "stopped"
                  /\ self' = self
             ELSE IF Strip(raw) = <<>>
             THEN /\ stdout' = "empty" /\ session' = session /\ pc' = "prompt"
                  /\ self' = self
             ELSE /\ stdout' = stdout /\ session' = session /\ pc' = "validate_font_path"
                  /\ self' = NewRenderer(Strip(raw), driver_font_path, driver_font_size,
                                         OutputPath(output_image_base, image_counter),
                                         default_margin, default_initial_width,
                                         default_initial_height)
    /\ UNCHANGED <<existing_fonts, files, images, locals, draw_calls, calls, error,
                   image_counter>>

\* input() raises EOFError at end of input; line 167 is outside the try block
ReadEOF ==
    /\ session = "running"
    /\ pc = "prompt"
    /\ error' = Raise("EOFError")
    /\ session' = "crashed"
    /\ pc' = "stopped"
    /\ UNCHANGED <<self, existing_fonts, files, images, locals, draw_calls, calls,
                   image_counter, entry, stdout>>

\* lines 189-190: main() returned
DriverSaved ==
    /\ session = "running"
    /\ pc = "done"
    /\ stdout' = "saved"
    /\ image_counter' = image_counter + 1
    /\ pc' = "prompt"
    /\ DropRenderer
    /\ UNCHANGED <<existing_fonts, files, error, entry, session>>

\* the counter advanced on the failure path as well
DriverExcept_Counts ==
    /\ session = "running"
    /\ pc = "failed"
    /\ stdout' = IF error.type = "FileNotFoundError" THEN "error" ELSE "unexpected"
    /\ error' = NoError
    /\ image_counter' = image_counter + 1
    /\ pc' = "prompt"
    /\ DropRenderer
    /\ UNCHANGED <<existing_fonts, files, entry, session>>

\* lines 192-195: both except clauses print and fall through to the next iteration
DriverExcept ==
    /\ session = "running"
    /\ pc = "failed"
    /\ stdout' = IF error.type = "FileNotFoundError" THEN "error" ELSE "unexpected"
    /\ error' = NoError
    /\ pc' = "prompt"
    /\ DropRenderer
    /\ UNCHANGED <<existing_fonts, files, image_counter, entry, session>>

InitDriver ==
    /\ self = NoSelf
    /\ existing_fonts \in {{}, {driver_font_path}}
    /\ files = [p \in Paths |-> NoFile]
    /\ images = <<>>
    /\ FreshLocals
    /\ draw_calls = <<>> /\ calls = <<>>
    /\ pc = "prompt"
    /\ error = NoError
    /\ image_counter = 1 /\ entry = <<>> /\ session = "running" /\ stdout = "banner"

NextDriver == ReadEntry \/ ReadEOF \/ DriverSaved \/ DriverExcept \/ Render

SpecDriver == InitDriver /\ [][NextDriver]_vars

\* ================================================================== properties
InSeq(x, s) == \E i \in 1..Len(s) : s[i] = x

\* s occurs in t as a contiguous run of characters
IsSubstring(s, t) == \E i \in 0..(Len(t) - Len(s)) : SubSeq(t, i + 1, i + Len(s)) = s

RECURSIVE NonSpace(_)
NonSpace(s) ==
    IF s = <<>> THEN <<>>
    ELSE (IF Head(s) \in Whitespace THEN <<>> ELSE <<Head(s)>>) \o NonSpace(Tail(s))

\* indices of the empty entries of a sequence of strings, in order
EmptyAt(ss) == {i \in 1..Len(ss) : ss[i] = <<>>}

\* the k-th smallest element of a finite set of integers
Kth(S, k) == CHOOSE i \in S : Cardinality({j \in S : j < i}) = k - 1

\* ---- C1 ----------------------------------------------------------------
\* C1: when font_path does not exist, construction fails with FileNotFoundError
\* whose message names the path, and at that point the only library call made
\* is os.path.exists: ImageFont.truetype was not attempted, no Image exists,
\* nothing was drawn and the output path holds what it held before.
C1_MissingFontFailsFirst ==
    (self.font_path \notin existing_fonts /\ pc # "validate_font_path") =>
        /\ pc = "failed"
        /\ error.type = "FileNotFoundError"
        /\ error.msg = <<"Font file '", self.font_path, "' not found.">>
        /\ calls = <<"os.path.exists">>
        /\ ~InSeq("ImageFont.truetype", calls)
        /\ self.font = NoFont
        /\ images = <<>> /\ image = 0 /\ draw = 0
        /\ draw_calls = <<>>
        /\ files[self.output_image_path].kind \in {"none", "old"}

C1_Witness ==
    /\ pc = "failed"
    /\ error.type = "FileNotFoundError"
    /\ self.font_path = "missing.ttf"
    /\ existing_fonts = {driver_font_path}

\* ---- C2 ----------------------------------------------------------------
\* C2: a render that reached save has a canvas as wide as initial_width, and as
\* high as required_height = 10 + line_count * (font_size + 5) when that exceeds
\* initial_height, as high as initial_height otherwise; the written file has the
\* same dimensions, and at no point is the canvas narrower, wider or lower than
\* the initial one.
C2_RequiredHeight == 10 + Len(wrapped_lines) * (self.font_size + 5)

C2_FinalCanvasSize ==
    /\ image # 0 =>
          /\ images[image].w = self.initial_width
          /\ images[image].h >= self.initial_height
    /\ (pc = "done" \/ (pc = "failed" /\ InSeq("image.save", calls))) =>
          /\ images[image].w = self.initial_width
          /\ C2_RequiredHeight > self.initial_height => images[image].h = C2_RequiredHeight
          /\ C2_RequiredHeight <= self.initial_height =>
                images[image].h = self.initial_height
    /\ pc = "done" =>
          /\ files[self.output_image_path].w = images[image].w
          /\ files[self.output_image_path].h = images[image].h

C2_Witness ==
    /\ pc = "done"
    /\ C2_RequiredHeight > self.initial_height
    /\ images[image].h = C2_RequiredHeight
    /\ Len(images) = 2

\* ---- C3 ----------------------------------------------------------------
\* C3: once wrap_text has returned, the empty wrapped lines are exactly as many
\* as the empty segments of text.split('\n'), the k-th empty wrapped line stands
\* where the k-th empty segment stands (the same words precede both), and
\* "a\n\nb" gives <<"a", "", "b">>.
C3_BlankLinesPreserved ==
    pc = "calculate_total_height" =>
        LET segs == Split(self.text)
            es   == EmptyAt(segs)
            el   == EmptyAt(wrapped_lines)
        IN  /\ Cardinality(el) = Cardinality(es)
            /\ \A k \in 1..Cardinality(es) :
                  NonSpace(Concat(SubSeq(wrapped_lines, 1, Kth(el, k) - 1)))
                     = NonSpace(Concat(SubSeq(segs, 1, Kth(es, k) - 1)))
            /\ self.text = <<"a", "\n", "\n", "b">> =>
                  wrapped_lines = << <<"a">>, <<>>, <<"b">> >>

C3_Witness ==
    /\ pc = "calculate_total_height"
    /\ self.text = <<"a", "\n", "\n", "b">>
    /\ max_chars_per_line >= 4
    /\ wrapped_lines = << <<"a">>, <<>>, <<"b">> >>

\* ---- C4 ----------------------------------------------------------------
\* C4: the draw.text calls made so far are the first lines of wrapped_lines in
\* order, the k-th (0-indexed) at x = margin and y = 10 + k * (font_size + 5),
\* empty lines included; when draw_text has returned there are as many calls as
\* wrapped lines.
C4_DrawCalls ==
    /\ Len(draw_calls) <= Len(wrapped_lines)
    /\ \A k \in 0..(Len(draw_calls) - 1) :
          /\ draw_calls[k + 1].line = wrapped_lines[k + 1]
          /\ draw_calls[k + 1].x = self.margin
          /\ draw_calls[k + 1].y = 10 + k * (self.font_size + 5)
    /\ (pc \in {"save_image", "done"} \/ (pc = "failed" /\ InSeq("image.save", calls))) =>
          Len(draw_calls) = Len(wrapped_lines)

C4_Witness ==
    /\ pc = "save_image"
    /\ Len(draw_calls) >= 3
    /\ \E k \in 2..Len(draw_calls) : draw_calls[k].line = <<>> /\ draw_calls[k].y > 10

\* ---- C5 ----------------------------------------------------------------
\* a request that raised is followed by the next prompt, with image_counter as it was
C5_FailureIsCaught ==
    /\ [][(session = "running" /\ pc = "failed") =>
             (pc' = "prompt" /\ session' = "running" /\ image_counter' = image_counter
              /\ stdout' \in {"error", "unexpected"})]_vars
    /\ [][image_counter' # image_counter => (pc = "done" /\ pc' = "prompt")]_vars

C5_AfterFailure == session = "running" /\ stdout \in {"error", "unexpected"}

\* C5 as stated: a request that raised is followed by the next prompt with
\* image_counter unchanged, and after a failure only the 'exit' command ends the
\* session.
C5_OnlyExitEndsSession ==
    /\ C5_FailureIsCaught
    /\ [][(C5_AfterFailure /\ session' # "running") =>
             (session' = "exited" /\ Lower(entry') = exit_command)]_vars

\* C5 amended: a request that raised is followed by the next prompt with
\* image_counter unchanged, and after a failure the session ends only at the
\* prompt, by the 'exit' command or by input() raising at end of input.
C5_ExitOrEndOfInputEndsSession ==
    /\ C5_FailureIsCaught
    /\ [][(C5_AfterFailure /\ session' # "running") =>
             /\ pc = "prompt"
             /\ \/ session' = "exited" /\ Lower(entry') = exit_command
                \/ session' = "crashed" /\ error'.type = "EOFError"]_vars

C5_Witness ==
    /\ session = "running"
    /\ pc = "prompt"
    /\ stdout = "unexpected"
    /\ image_counter = 2
    /\ files[OutputPath(output_image_base, 2)].kind = "partial"

\* ---- C6 ----------------------------------------------------------------
\* C6: an entry that is empty after strip leaves the driver at the prompt with
\* no renderer, no library call, no image, the files and image_counter as they
\* were; a renderer only ever gets a text with a non-whitespace character.
C6_BlankEntryIsIgnored ==
    /\ [](self # NoSelf => (self.text # <<>> /\ ~IsSpace(self.text)))
    /\ [][(session = "running" /\ pc = "prompt" /\ session' = "running"
           /\ entry' = <<>>) =>
             /\ pc' = "prompt"
             /\ stdout' = "empty"
             /\ self' = NoSelf /\ calls' = <<>> /\ images' = <<>>
             /\ files' = files
             /\ image_counter' = image_counter]_vars

C6_Witness ==
    /\ session = "running"
    /\ pc = "prompt"
    /\ stdout = "empty"
    /\ entry = <<>>
    /\ image_counter = 2
    /\ files[OutputPath(output_image_base, 1)].kind = "image"
    /\ files[OutputPath(output_image_base, 2)].kind = "none"

\* ---- C7 ----------------------------------------------------------------
\* C7: the output path changes only in the save step, which starts after the
\* capacity was estimated, the text wrapped, the canvas resized and every
\* wrapped line drawn; a render that failed before save leaves the output path
\* as it was.
C7_WrittenOnlyBySave ==
    /\ [][files' # files =>
             /\ pc = "save_image"
             /\ InSeq("font.getbbox", calls)
             /\ max_chars_per_line =
                   calculate_max_chars_per_line(self.initial_width, self.margin, self.font)
             /\ wrapped_lines = wrap_text(self.text, max_chars_per_line)
             /\ total_height = 10 + Len(wrapped_lines) * (self.font_size + 5)
             /\ images[image].h >= total_height
             /\ Len(draw_calls) = Len(wrapped_lines)
             /\ \A k \in 1..Len(wrapped_lines) : draw_calls[k].line = wrapped_lines[k]]_vars
    /\ []((pc = "failed" /\ ~InSeq("image.save", calls)) =>
             files[self.output_image_path].kind \in {"none", "old"})

C7_Witness ==
    /\ pc = "failed"
    /\ error.type = "ValueError"
    /\ images # <<>>
    /\ files[self.output_image_path].kind = "old"

\* ---- C8 ----------------------------------------------------------------
C8_Widths == 0..(MaxWidth + 2)

\* C8: with the font measure and the margin of the request fixed, the capacity
\* computed for the request's width is no smaller than that of any narrower
\* width and no greater than that of any wider one, and the capacity is
\* non-decreasing over all widths, widths below 2*margin included.
C8_CapacityMonotone ==
    (pc = "wrap_text") =>
        /\ \A w \in C8_Widths :
              /\ w <= self.initial_width =>
                    calculate_max_chars_per_line(w, self.margin, self.font)
                       <= max_chars_per_line
              /\ w >= self.initial_width =>
                    calculate_max_chars_per_line(w, self.margin, self.font)
                       >= max_chars_per_line
        /\ \A w1, w2 \in C8_Widths :
              w1 <= w2 =>
                 calculate_max_chars_per_line(w1, self.margin, self.font)
                    <= calculate_max_chars_per_line(w2, self.margin, self.font)

C8_Witness ==
    /\ pc = "wrap_text"
    /\ self.initial_width < 2 * self.margin
    /\ max_chars_per_line < 0
    /\ calculate_max_chars_per_line(MaxWidth, self.margin, self.font) > 0

\* ---- C9 ----------------------------------------------------------------
\* C9: every draw.text call goes through a surface bound to the image that
\* main() holds after the resize step, and the file that save writes shows every
\* wrapped line.
C9_DrawsOnSavedCanvas ==
    /\ \A k \in 1..Len(draw_calls) : draw_calls[k].surface = image
    /\ pc \in {"draw_loop", "save_image", "done"} => draw = image
    /\ pc = "done" => files[self.output_image_path].lines = wrapped_lines

C9_Witness ==
    /\ pc = "done"
    /\ Len(images) = 2 /\ image = 2
    /\ draw_calls # <<>>
    /\ files[self.output_image_path].lines = wrapped_lines

\* ---- C10 ---------------------------------------------------------------
\* C10: for a capacity of at least 1, every wrapped line has at most
\* max_chars_per_line characters, holds no newline and is a run of characters of
\* one single segment of text.split('\n').
C10_LinesFitAndStayInSegment ==
    (pc = "calculate_total_height" /\ max_chars_per_line >= 1) =>
        LET segs == Split(self.text)
        IN  /\ \A k \in 1..Len(wrapped_lines) :
                  /\ Len(wrapped_lines[k]) <= max_chars_per_line
                  /\ ~InSeq("\n", wrapped_lines[k])
                  /\ \E i \in 1..Len(segs) : IsSubstring(wrapped_lines[k], segs[i])

C10_Witness ==
    /\ pc = "calculate_total_height"
    /\ max_chars_per_line = 1
    /\ Len(Split(self.text)) = 2
    /\ Len(wrapped_lines) = 3
    /\ \A k \in 1..3 : Len(wrapped_lines[k]) = 1

====
